---- MODULE Spec2Model ----
(***************************************************************************)
(* Model of pm25_cron_job.py: one cron-triggered invocation wakes the PM2.5 *)
(* sensor, reads one Sample with bounded retries, puts the sensor to sleep, *)
(* appends the Sample to a JSON buffer file and, once the buffer holds      *)
(* WRITE_THRESHOLD Samples, appends the whole buffer to a CSV log and       *)
(* persists an empty buffer.  Invocations follow one another (cron); they   *)
(* do not overlap.                                                          *)
(*                                                                         *)
(* The buffer file is modelled by its text, a sequence of JSON tokens, so   *)
(* that json.dump / json.load are real conversions and a write that stops   *)
(* part-way leaves a text that json.load has to parse.  The CSV log is the  *)
(* sequence of its rows.                                                    *)
(***************************************************************************)
EXTENDS Integers, Sequences, FiniteSets, TLC

\* ---------------------------------------------------------------- bounds
\* Number of invocations (cron runs) explored.
MaxCycles == 7
\* Longest well-formed buffer found on disk before the first invocation.
MaxInitLen == 7
\* Largest flush threshold explored by the specification that varies it.
MaxThreshold == 4
\* I/O faults (exceptions raised by the LED, the files or the drivers, other
\* than the RuntimeError that read_sensor retries) injected in one run.
MaxFaults == 1
\* Readings whose humidity is None in one run.
MaxNone == 1

\* ------------------------------------------------------ program constants
WRITE_THRESHOLD == 6
\* read_sensor(retries=10, ...)
retries == 10
\* exit status of exit() and of running off the end of the script
EXIT_OK == 0
\* exit(1) after a failed UART open
EXIT_UART == 1

\* ------------------------------------------------------------- data model
\* A Sample is the list read_sensor returns.  ts stands for the timestamp
\* (the n-th Sample ever acquired); humidity is the one field that the DHT
\* driver may hand back as None without raising.
Sample(n, h) == [ts |-> n, humidity |-> h]
HumidityValues == {"value", "None"}
\* Python's None, as returned by read_sensor after the last retry.
NoReading == Sample(0, "None")

\* JSON tokens of the buffer file.  "null" is a well-formed JSON text that is
\* not an array; "badbyte" is a byte sequence that is not UTF-8.
Tok(k) == [kind |-> k, val |-> NoReading]
SampleTok(s) == [kind |-> "sample", val |-> s]
LBRACK == Tok("[")
RBRACK == Tok("]")
COMMA == Tok(",")
JNULL == Tok("null")
BADBYTE == Tok("badbyte")

\* json.dump(buffer, f): the text of a list of Samples.
JsonDump(b) ==
    LET n == Len(b)
        L == IF n = 0 THEN 2 ELSE 2 * n + 1
    IN [i \in 1..L |-> IF i = 1 THEN LBRACK
                       ELSE IF i = L THEN RBRACK
                       ELSE IF i % 2 = 0 THEN SampleTok(b[i \div 2])
                       ELSE COMMA]

\* The text is a JSON array of Samples.
IsArrayText(t) ==
    /\ Len(t) >= 2
    /\ t[1] = LBRACK
    /\ t[Len(t)] = RBRACK
    /\ \/ Len(t) = 2
       \/ /\ Len(t) % 2 = 1
          /\ \A i \in 2..(Len(t) - 1) :
                IF i % 2 = 0 THEN t[i].kind = "sample" ELSE t[i] = COMMA

\* A Python value: a list of Samples, or something that is not a list.
PyList(items) == [isList |-> TRUE, items |-> items]
PyNone == [isList |-> FALSE, items |-> <<>>]

\* json.load(f): the decoded text is parsed; undecodable bytes raise
\* UnicodeDecodeError while the file is read, malformed text raises
\* JSONDecodeError, and a well-formed text gives its value, list or not.
JsonLoad(t) ==
    IF \E i \in 1..Len(t) : t[i] = BADBYTE
    THEN [raises |-> "UnicodeDecodeError", value |-> PyNone]
    ELSE IF IsArrayText(t)
    THEN [raises |-> "none",
          value |-> PyList([i \in 1..((Len(t) - 1) \div 2) |-> t[2 * i].val])]
    ELSE IF t = <<JNULL>>
    THEN [raises |-> "none", value |-> PyNone]
    ELSE [raises |-> "JSONDecodeError", value |-> PyNone]

\* load_buffer(): [] when the file is absent or json.load raises
\* JSONDecodeError; any other exception propagates to the caller.
load_buffer(f) ==
    IF ~f.exists
    THEN [raises |-> "none", value |-> PyList(<<>>)]
    ELSE LET r == JsonLoad(f.text)
         IN IF r.raises = "JSONDecodeError"
            THEN [raises |-> "none", value |-> PyList(<<>>)]
            ELSE r

\* A file on disk.
Absent == [exists |-> FALSE, text |-> <<>>]
File(t) == [exists |-> TRUE, text |-> t]

Prefix(s, k) == SubSeq(s, 1, k)

\* Mutant of ShouldFlush: `>` for `>=`.
ShouldFlushStrict(n, T) == n > T

\* FlushPolicy: `if len(buffer) >= WRITE_THRESHOLD`.
ShouldFlush(n, T) == n >= T

\* ------------------------------------------------------------------ state
VARIABLES
    pc,            \* stage of the running invocation, or how it ended
    set_pin,       \* GPIO level of SET_PIN: TRUE = sensor powered
    attempt,       \* reader invocations made by read_sensor's loop
    reading,       \* `reading`: the Sample, or NoReading
    buffer,        \* `buffer`: the Python value returned by load_buffer
    buffer_file,   \* the file at BUFFER_PATH
    csv_file,      \* the rows of the file at CSV_PATH
    threshold,     \* the configured WRITE_THRESHOLD
    exit_status,   \* <<status>> once the process has exited, <<>> before
    error,         \* exception caught by the top-level handler, or "none"
    clock,         \* timestamp of the next Sample to be acquired
    cycles,        \* invocations started so far
    file_at_start, \* buffer_file when this invocation started
    csv_at_start,  \* csv_file when this invocation started
    csv_written,   \* write_to_csv returned in this invocation
    csv_faulted,   \* write_to_csv raised in this invocation
    save_called,   \* save_buffer was called in this invocation
    save_arg,      \* the list save_buffer was called with
    woken,         \* wake_sensor ran in this invocation
    all_clean,     \* every invocation so far acquired a Sample, no fault
    faults,        \* I/O faults injected so far
    nones          \* readings with a None humidity so far

vars == <<pc, set_pin, attempt, reading, buffer, buffer_file, csv_file,
          threshold, exit_status, error, clock, cycles, file_at_start,
          csv_at_start, csv_written, csv_faulted, save_called, save_arg,
          woken, all_clean, faults, nones>>

disk == <<buffer_file, csv_file>>
config == <<threshold>>
locals == <<attempt, reading, buffer>>
history == <<file_at_start, csv_at_start, csv_written, csv_faulted,
             save_called, save_arg, woken>>

Terminal == {"Done", "Failed", "Aborted"}

\* The first k Samples, as a buffer left on disk by earlier runs.
Earlier(k) == [i \in 1..k |-> Sample(i, "value")]

\* What may be found at BUFFER_PATH before the first invocation: nothing, a
\* zero-length file, a JSON text that is not an array, bytes that are not
\* UTF-8, or a well-formed buffer.
InitialFiles ==
    {Absent, File(<<>>), File(<<JNULL>>), File(<<BADBYTE>>)}
        \cup {File(JsonDump(Earlier(k))) : k \in 0..MaxInitLen}

InitWith(f, T) ==
    /\ pc = "Idle"
    /\ set_pin = FALSE
    /\ attempt = 0
    /\ reading = NoReading
    /\ buffer = PyList(<<>>)
    /\ buffer_file = f
    /\ csv_file = <<>>
    /\ threshold = T
    /\ exit_status = <<>>
    /\ error = "none"
    /\ clock = IF f.exists /\ IsArrayText(f.text)
               THEN (Len(f.text) - 1) \div 2 + 1 ELSE 1
    /\ cycles = 1
    /\ file_at_start = f
    /\ csv_at_start = <<>>
    /\ csv_written = FALSE
    /\ csv_faulted = FALSE
    /\ save_called = FALSE
    /\ save_arg = <<>>
    /\ woken = FALSE
    /\ all_clean = TRUE
    /\ faults = 0
    /\ nones = 0

Init == \E f \in InitialFiles : InitWith(f, WRITE_THRESHOLD)

\* ------------------------------------------------------------ invocation
\* cron starts the next run once the previous process has ended.
Invoke ==
    /\ pc \in Terminal
    /\ cycles < MaxCycles
    /\ pc' = "Idle"
    /\ cycles' = cycles + 1
    /\ attempt' = 0
    /\ reading' = NoReading
    /\ buffer' = PyList(<<>>)
    /\ exit_status' = <<>>
    /\ error' = "none"
    /\ file_at_start' = buffer_file
    /\ csv_at_start' = csv_file
    /\ csv_written' = FALSE
    /\ csv_faulted' = FALSE
    /\ save_called' = FALSE
    /\ save_arg' = <<>>
    /\ woken' = FALSE
    /\ all_clean' = (all_clean /\ pc = "Done" /\ reading # NoReading)
    /\ UNCHANGED <<set_pin, clock, disk, config, faults, nones>>

\* `except Exception as e: print(...)`: the handler logs and the script runs
\* off its end, so the process exits with status 0.
Except(e) ==
    /\ pc' = "Failed"
    /\ error' = e
    /\ exit_status' = <<EXIT_OK>>

\* UART SETUP: serial.SerialException -> exit(1), before MAIN.
UartSetupFail ==
    /\ faults < MaxFaults
    /\ faults' = faults + 1
    /\ pc = "Idle"
    /\ pc' = "Aborted"
    /\ exit_status' = <<EXIT_UART>>
    /\ UNCHANGED <<set_pin, locals, disk, config, error, clock, cycles,
                   history, all_clean, nones>>

\* wake_sensor()
wake_sensor ==
    /\ pc = "Idle"
    /\ pc' = "Acquiring"
    /\ set_pin' = TRUE
    /\ woken' = TRUE
    /\ UNCHANGED <<locals, disk, config, exit_status, error, clock, cycles,
                   file_at_start, csv_at_start, csv_written, csv_faulted,
                   save_called, save_arg, all_clean, faults, nones>>

\* read_sensor, one attempt that succeeds: every driver call returned; the
\* DHT humidity may be None.
ReadOk ==
    /\ pc = "Acquiring"
    /\ attempt < retries
    /\ \E h \in HumidityValues :
          /\ h = "None" => nones < MaxNone
          /\ reading' = Sample(clock, h)
          /\ nones' = IF h = "None" THEN nones + 1 ELSE nones
    /\ attempt' = attempt + 1
    /\ clock' = clock + 1
    /\ pc' = "Sleeping"
    /\ UNCHANGED <<set_pin, buffer, disk, config, exit_status, error, cycles,
                   history, all_clean, faults>>

\* read_sensor, one attempt that raises RuntimeError (pm25.read or the DHT
\* driver): logged, the loop goes on.
ReadRuntimeError ==
    /\ pc = "Acquiring"
    /\ attempt < retries
    /\ attempt' = attempt + 1
    /\ UNCHANGED <<pc, set_pin, reading, buffer, disk, config, exit_status,
                   error, clock, cycles, history, all_clean, faults, nones>>

\* read_sensor, one attempt that raises something else: OSError from the LED
\* or the CPU temperature file, TypeError from `temperature_c * (9 / 5)` when
\* the DHT temperature is None.  Not caught in read_sensor: it reaches the
\* top-level handler, past sleep_sensor().
ReadFault ==
    /\ faults < MaxFaults
    /\ faults' = faults + 1
    /\ pc = "Acquiring"
    /\ attempt < retries
    /\ \E e \in {"OSError", "TypeError"} : Except(e)
    /\ attempt' = attempt + 1
    /\ UNCHANGED <<set_pin, reading, buffer, disk, config, clock, cycles,
                   history, all_clean, nones>>

\* Mutant of ReadExhausted: after the last retry the loop starts over.
ReadExhaustedRestarts ==
    /\ pc = "Acquiring"
    /\ attempt = retries
    /\ attempt' = 0
    /\ UNCHANGED <<pc, set_pin, reading, buffer, disk, config, exit_status,
                   error, clock, cycles, history, all_clean, faults, nones>>

\* Mutant of ReadExhausted: the loop is one attempt short.
ReadExhaustedEarly ==
    /\ pc = "Acquiring"
    /\ attempt = retries - 1
    /\ reading' = NoReading
    /\ pc' = "Sleeping"
    /\ UNCHANGED <<set_pin, attempt, buffer, disk, config, exit_status, error,
                   clock, cycles, history, all_clean, faults, nones>>

\* read_sensor, after the last retry: return None.
ReadExhausted ==
    /\ pc = "Acquiring"
    /\ attempt = retries
    /\ reading' = NoReading
    /\ pc' = "Sleeping"
    /\ UNCHANGED <<set_pin, attempt, buffer, disk, config, exit_status, error,
                   clock, cycles, history, all_clean, faults, nones>>

\* sleep_sensor()
sleep_sensor ==
    /\ pc = "Sleeping"
    /\ set_pin' = FALSE
    /\ pc' = "Checking"
    /\ UNCHANGED <<locals, disk, config, exit_status, error, clock, cycles,
                   history, all_clean, faults, nones>>

\* Mutant of NoReadingExit: the exit() is missing, the script carries on
\* and persists what load_buffer returns.
NoReadingSaves ==
    /\ pc = "Checking"
    /\ reading = NoReading
    /\ load_buffer(buffer_file).raises = "none"
    /\ buffer' = load_buffer(buffer_file).value
    /\ pc' = "Saving"
    /\ UNCHANGED <<set_pin, attempt, reading, disk, config, exit_status,
                   error, clock, cycles, history, all_clean, faults, nones>>

\* `if not reading: exit()`: SystemExit is not an Exception, status 0.
NoReadingExit ==
    /\ pc = "Checking"
    /\ reading = NoReading
    /\ pc' = "Done"
    /\ exit_status' = <<EXIT_OK>>
    /\ UNCHANGED <<set_pin, locals, disk, config, error, clock, cycles,
                   history, all_clean, faults, nones>>

\* Mutant of LoadBuffer: load_buffer creates the file when it is absent.
LoadBufferTouches ==
    /\ pc = "Checking"
    /\ reading # NoReading
    /\ load_buffer(buffer_file).raises = "none"
    /\ buffer' = load_buffer(buffer_file).value
    /\ buffer_file' = File(buffer_file.text)
    /\ attempt' = 0
    /\ pc' = "Appending"
    /\ UNCHANGED <<set_pin, reading, csv_file, config, exit_status, error,
                   clock, cycles, history, all_clean, faults, nones>>

\* buffer = load_buffer().  (read_sensor's loop counter is dead once it has
\* returned a Sample; it is dropped here.)
LoadBuffer ==
    /\ pc = "Checking"
    /\ reading # NoReading
    /\ load_buffer(buffer_file).raises = "none"
    /\ buffer' = load_buffer(buffer_file).value
    /\ attempt' = 0
    /\ pc' = "Appending"
    /\ UNCHANGED <<set_pin, reading, disk, config, exit_status, error, clock,
                   cycles, history, all_clean, faults, nones>>

\* load_buffer() raises (anything but JSONDecodeError).
LoadBufferRaise ==
    /\ pc = "Checking"
    /\ reading # NoReading
    /\ load_buffer(buffer_file).raises # "none"
    /\ Except(load_buffer(buffer_file).raises)
    /\ attempt' = 0
    /\ UNCHANGED <<set_pin, reading, buffer, disk, config, clock, cycles,
                   history, all_clean, faults, nones>>

\* Mutant of AppendReading: the reading replaces the loaded buffer.
AppendReplaces ==
    /\ pc = "Appending"
    /\ buffer.isList
    /\ buffer' = PyList(<<reading>>)
    /\ pc' = "Blink2"
    /\ UNCHANGED <<set_pin, attempt, reading, disk, config, exit_status,
                   error, clock, cycles, history, all_clean, faults, nones>>

\* buffer.append(reading)
AppendReading ==
    /\ pc = "Appending"
    /\ buffer.isList
    /\ buffer' = PyList(Append(buffer.items, reading))
    /\ pc' = "Blink2"
    /\ UNCHANGED <<set_pin, attempt, reading, disk, config, exit_status,
                   error, clock, cycles, history, all_clean, faults, nones>>

\* buffer.append on a value that is not a list: AttributeError.
AppendRaise ==
    /\ pc = "Appending"
    /\ ~buffer.isList
    /\ Except("AttributeError")
    /\ UNCHANGED <<set_pin, locals, disk, config, clock, cycles, history,
                   all_clean, faults, nones>>

\* Mutant of Blink2: the flush decision is skipped.
Blink2SkipsFlush ==
    /\ pc = "Blink2"
    /\ pc' = "Saving"
    /\ UNCHANGED <<set_pin, locals, disk, config, exit_status, error, clock,
                   cycles, history, all_clean, faults, nones>>

\* blink_builtin_led(2): the LED file is written; nothing else changes.
Blink2 ==
    /\ pc = "Blink2"
    /\ pc' = "Deciding"
    /\ UNCHANGED <<set_pin, locals, disk, config, exit_status, error, clock,
                   cycles, history, all_clean, faults, nones>>

\* blink_builtin_led(2) raises OSError (open/write of LED_PATH).
Blink2Raise ==
    /\ faults < MaxFaults
    /\ faults' = faults + 1
    /\ pc = "Blink2"
    /\ Except("OSError")
    /\ UNCHANGED <<set_pin, locals, disk, config, clock, cycles, history,
                   all_clean, nones>>

\* `if len(buffer) >= WRITE_THRESHOLD:` is false.
NoFlush ==
    /\ pc = "Deciding"
    /\ ~ShouldFlush(Len(buffer.items), threshold)
    /\ pc' = "Saving"
    /\ UNCHANGED <<set_pin, locals, disk, config, exit_status, error, clock,
                   cycles, history, all_clean, faults, nones>>

\* Mutant of write_to_csv: the log is opened with "w" and loses its rows.
write_to_csv_Overwrite ==
    /\ pc = "Deciding"
    /\ ShouldFlush(Len(buffer.items), threshold)
    /\ csv_file' = buffer.items
    /\ csv_written' = TRUE
    /\ pc' = "Blink3"
    /\ UNCHANGED <<set_pin, locals, buffer_file, config, exit_status, error,
                   clock, cycles, file_at_start, csv_at_start, csv_faulted,
                   save_called, save_arg, woken, all_clean, faults, nones>>

\* write_to_csv(buffer): every row appended, os.sync(), return.
write_to_csv ==
    /\ pc = "Deciding"
    /\ ShouldFlush(Len(buffer.items), threshold)
    /\ csv_file' = csv_file \o buffer.items
    /\ csv_written' = TRUE
    /\ pc' = "Blink3"
    /\ UNCHANGED <<set_pin, locals, buffer_file, config, exit_status, error,
                   clock, cycles, file_at_start, csv_at_start, csv_faulted,
                   save_called, save_arg, woken, all_clean, faults, nones>>

\* Mutant of write_to_csv_Raise: the OSError is swallowed and the script
\* goes on to clear the buffer.
write_to_csv_Swallowed ==
    /\ faults < MaxFaults
    /\ faults' = faults + 1
    /\ pc = "Deciding"
    /\ ShouldFlush(Len(buffer.items), threshold)
    /\ \E k \in 0..(Len(buffer.items) - 1) :
          csv_file' = csv_file \o Prefix(buffer.items, k)
    /\ csv_faulted' = TRUE
    /\ pc' = "Blink3"
    /\ UNCHANGED <<set_pin, locals, buffer_file, config, exit_status, error,
                   clock, cycles, file_at_start, csv_at_start, csv_written,
                   save_called, save_arg, woken, all_clean, nones>>

\* write_to_csv(buffer) raises OSError: at open (no row written) or while
\* writing (the rows written so far stay in the file).
write_to_csv_Raise ==
    /\ faults < MaxFaults
    /\ faults' = faults + 1
    /\ pc = "Deciding"
    /\ ShouldFlush(Len(buffer.items), threshold)
    /\ \E k \in 0..(Len(buffer.items) - 1) :
          csv_file' = csv_file \o Prefix(buffer.items, k)
    /\ csv_faulted' = TRUE
    /\ Except("OSError")
    /\ UNCHANGED <<set_pin, locals, buffer_file, config, clock, cycles,
                   file_at_start, csv_at_start, csv_written, save_called,
                   save_arg, woken, all_clean, nones>>

\* Mutant of Blink3Clear: `buffer = []` is missing.
Blink3NoClear ==
    /\ pc = "Blink3"
    /\ pc' = "Saving"
    /\ UNCHANGED <<set_pin, locals, disk, config, exit_status, error, clock,
                   cycles, history, all_clean, faults, nones>>

\* blink_builtin_led(3); buffer = []
Blink3Clear ==
    /\ pc = "Blink3"
    /\ buffer' = PyList(<<>>)
    /\ pc' = "Saving"
    /\ UNCHANGED <<set_pin, attempt, reading, disk, config, exit_status,
                   error, clock, cycles, history, all_clean, faults, nones>>

\* blink_builtin_led(3) raises OSError, after write_to_csv returned.
Blink3Raise ==
    /\ faults < MaxFaults
    /\ faults' = faults + 1
    /\ pc = "Blink3"
    /\ Except("OSError")
    /\ UNCHANGED <<set_pin, locals, disk, config, clock, cycles, history,
                   all_clean, nones>>

\* Mutant of SaveOpen: the file is opened with "a", so it keeps its text.
SaveOpenAppend ==
    /\ pc = "Saving"
    /\ buffer_file' = File(buffer_file.text)
    /\ save_called' = TRUE
    /\ save_arg' = buffer.items
    /\ pc' = "Dumping"
    /\ UNCHANGED <<set_pin, locals, csv_file, config, exit_status, error,
                   clock, cycles, file_at_start, csv_at_start, csv_written,
                   csv_faulted, woken, all_clean, faults, nones>>

\* save_buffer(buffer), `open(BUFFER_PATH, "w")`: the file is created or
\* truncated to zero length.
SaveOpen ==
    /\ pc = "Saving"
    /\ buffer_file' = File(<<>>)
    /\ save_called' = TRUE
    /\ save_arg' = buffer.items
    /\ pc' = "Dumping"
    /\ UNCHANGED <<set_pin, locals, csv_file, config, exit_status, error,
                   clock, cycles, file_at_start, csv_at_start, csv_written,
                   csv_faulted, woken, all_clean, faults, nones>>

\* save_buffer(buffer), open raises OSError: the file is left as it was.
SaveOpenRaise ==
    /\ faults < MaxFaults
    /\ faults' = faults + 1
    /\ pc = "Saving"
    /\ save_called' = TRUE
    /\ save_arg' = buffer.items
    /\ Except("OSError")
    /\ UNCHANGED <<set_pin, locals, disk, config, clock, cycles,
                   file_at_start, csv_at_start, csv_written, csv_faulted,
                   woken, all_clean, nones>>

\* save_buffer(buffer), `json.dump(buffer, f)` and close: the whole text is
\* written after what the opened file holds (nothing, after the truncation);
\* the script runs to its end.
SaveDump ==
    /\ pc = "Dumping"
    /\ buffer_file' = File(buffer_file.text \o JsonDump(buffer.items))
    /\ pc' = "Done"
    /\ exit_status' = <<EXIT_OK>>
    /\ UNCHANGED <<set_pin, locals, csv_file, config, error, clock, cycles,
                   history, all_clean, faults, nones>>

\* save_buffer(buffer), the write stops part-way (OSError such as a full
\* disk): a proper prefix of the text is in the file.
SaveDumpRaise ==
    /\ faults < MaxFaults
    /\ faults' = faults + 1
    /\ pc = "Dumping"
    /\ \E k \in 0..(Len(JsonDump(buffer.items)) - 1) :
          buffer_file' =
              File(buffer_file.text \o Prefix(JsonDump(buffer.items), k))
    /\ Except("OSError")
    /\ UNCHANGED <<set_pin, locals, csv_file, config, clock, cycles, history,
                   all_clean, nones>>

\* ------------------------------------------------------- specifications
Next ==
    \/ Invoke
    \/ UartSetupFail
    \/ wake_sensor
    \/ ReadOk
    \/ ReadRuntimeError
    \/ ReadFault
    \/ ReadExhausted
    \/ sleep_sensor
    \/ NoReadingExit
    \/ LoadBuffer
    \/ LoadBufferRaise
    \/ AppendReading
    \/ AppendRaise
    \/ Blink2
    \/ Blink2Raise
    \/ NoFlush
    \/ write_to_csv
    \/ write_to_csv_Raise
    \/ Blink3Clear
    \/ Blink3Raise
    \/ SaveOpen
    \/ SaveOpenRaise
    \/ SaveDump
    \/ SaveDumpRaise

\* The script as deployed (WRITE_THRESHOLD = 6), whatever it finds at
\* BUFFER_PATH.
Spec == Init /\ [][Next]_vars

\* One statement of the running process: every action but cron's.
Step ==
    \/ UartSetupFail
    \/ wake_sensor
    \/ ReadOk
    \/ ReadRuntimeError
    \/ ReadFault
    \/ ReadExhausted
    \/ sleep_sensor
    \/ NoReadingExit
    \/ LoadBuffer
    \/ LoadBufferRaise
    \/ AppendReading
    \/ AppendRaise
    \/ Blink2
    \/ Blink2Raise
    \/ NoFlush
    \/ write_to_csv
    \/ write_to_csv_Raise
    \/ Blink3Clear
    \/ Blink3Raise
    \/ SaveOpen
    \/ SaveOpenRaise
    \/ SaveDump
    \/ SaveDumpRaise

\* The buffer files that take an invocation down each of its paths: absent,
\* not a list, not UTF-8, and one Sample short of the threshold.
InitLive ==
    \E f \in {Absent, File(<<JNULL>>), File(<<BADBYTE>>),
              File(JsonDump(Earlier(WRITE_THRESHOLD - 1)))} :
        InitWith(f, WRITE_THRESHOLD)

\* The script is single-threaded and every call it makes returns or raises
\* (sleeps are finite, the UART read has a timeout): a process that has not
\* exited executes its next statement.  cron is not obliged to run again.
SpecLive == InitLive /\ [][Next]_vars /\ WF_vars(Step)

\* The script started on an absent buffer file and an empty log, for each
\* flush threshold a deployment may configure.  From there the file only
\* ever holds what save_buffer wrote, so load_buffer and buffer.append never
\* raise.
Thresholds == (1..MaxThreshold) \cup {WRITE_THRESHOLD}

InitT == \E T \in Thresholds : InitWith(Absent, T)

NextT ==
    \/ Invoke
    \/ UartSetupFail
    \/ wake_sensor
    \/ ReadOk
    \/ ReadRuntimeError
    \/ ReadFault
    \/ ReadExhausted
    \/ sleep_sensor
    \/ NoReadingExit
    \/ LoadBuffer
    \/ AppendReading
    \/ Blink2
    \/ Blink2Raise
    \/ NoFlush
    \/ write_to_csv
    \/ write_to_csv_Raise
    \/ Blink3Clear
    \/ Blink3Raise
    \/ SaveOpen
    \/ SaveOpenRaise
    \/ SaveDump
    \/ SaveDumpRaise

SpecT == InitT /\ [][NextT]_vars

\* ----------------------------------------------------------------- claims
\* What the next load_buffer() would return, and what this invocation's
\* load_buffer() read.
Persisted == load_buffer(buffer_file).value
PersistedAtStart == load_buffer(file_at_start).value

\* The Samples of a sequence, as a set.
Range(q) == {q[i] : i \in 1..Len(q)}

\* C1: the buffer is persisted empty only after write_to_csv returned in the
\* same invocation: save_buffer is called with [] only then, the text of an
\* empty list replaces the file only then, and once write_to_csv has raised
\* save_buffer is not called and the file is what it was.
C1_ClearOnlyAfterLogWrite ==
    /\ (save_called /\ save_arg = <<>>) => csv_written
    /\ (buffer_file = File(JsonDump(<<>>)) /\ buffer_file # file_at_start)
          => csv_written
    /\ csv_faulted => (~save_called /\ buffer_file = file_at_start)

\* C1 witness: a flushing invocation has ended with the empty list on disk.
C1_Witness ==
    /\ pc = "Done"
    /\ csv_written
    /\ save_called
    /\ save_arg = <<>>
    /\ buffer_file = File(JsonDump(<<>>))
    /\ buffer_file # file_at_start
    /\ Len(csv_file) > Len(csv_at_start)

\* C2: when write_to_csv raises, the buffer left on disk holds the whole
\* batch of that cycle, the Sample just acquired included.
C2_BatchKeptOnLogFault ==
    (pc = "Failed" /\ csv_faulted) =>
        /\ Persisted.isList
        /\ Range(buffer.items) \subseteq Range(Persisted.items)
        /\ reading \in Range(Persisted.items)

\* C3: no Sample is written to the log more than once.
C3_NoDuplicateRows ==
    \A i \in 1..Len(csv_file) : \A j \in 1..Len(csv_file) :
        csv_file[i] = csv_file[j] => i = j

\* C5: after an invocation that ran save_buffer to its end, fewer than
\* WRITE_THRESHOLD Samples are persisted, whatever was loaded.
C5_PersistedBelowThreshold ==
    (pc = "Done" /\ save_called) =>
        /\ Persisted.isList
        /\ Len(Persisted.items) < threshold

\* C5 witness: such an invocation that had loaded at least WRITE_THRESHOLD
\* Samples.
C5_Witness ==
    /\ pc = "Done"
    /\ save_called
    /\ PersistedAtStart.isList
    /\ Len(PersistedAtStart.items) >= threshold

\* C6: an invocation that woke the sensor does not end with the sensor
\* still powered.
C6_SensorAsleepAtExit ==
    (pc \in {"Done", "Failed"} /\ woken) => ~set_pin

\* C7: an invocation that ends because read_sensor returned None leaves the
\* buffer file and the log as they were, calls neither save_buffer nor
\* write_to_csv, and exits with the success status.
C7_NoReadingChangesNothing ==
    (pc = "Done" /\ reading = NoReading) =>
        /\ buffer_file = file_at_start
        /\ csv_file = csv_at_start
        /\ ~save_called
        /\ ~csv_written
        /\ exit_status = <<EXIT_OK>>

\* C7 witness: read_sensor used up its retries and the invocation is over.
C7_Witness ==
    /\ pc = "Done"
    /\ reading = NoReading
    /\ attempt = retries
    /\ woken
    /\ Persisted.isList
    /\ Persisted.items # <<>>

\* C8: an invocation ended by an unexpected fault exits with a status other
\* than the status of a successful invocation.
C8_FailedStatusDiffers ==
    pc = "Failed" => exit_status # <<EXIT_OK>>

\* C9: once save_buffer has been called, however the invocation ends, the
\* next load_buffer reads either what this invocation loaded or the list
\* save_buffer was given.
C9_SaveAtomic ==
    (pc \in Terminal /\ save_called) =>
        Persisted \in {PersistedAtStart, PyList(save_arg)}

\* The buffer file holds a JSON array of Samples.
ValidBufferFile(f) == f.exists /\ IsArrayText(f.text)

\* C10: when the buffer file is absent or is not a valid list of Samples,
\* load_buffer returns [] without raising and the cycle goes on: no fault
\* comes from load_buffer or from the append.
C10_LoadFailsSoft ==
    (~ValidBufferFile(file_at_start) /\ reading # NoReading) =>
        /\ pc = "Appending" => buffer = PyList(<<>>)
        /\ error \notin {"UnicodeDecodeError", "AttributeError"}

\* The Samples acquired so far are numbered 1 .. clock - 1 in the order of
\* their acquisition; these are the ones from a to b.
Chrono(q, a, b) ==
    /\ Len(q) = b - a + 1
    /\ \A i \in 1..Len(q) : q[i].ts = a + i - 1

\* An invocation has just ended in Done with a new Sample, as did every
\* invocation before it.
CleanDone == all_clean /\ pc = "Done" /\ reading # NoReading

\* C4: from an absent buffer and an empty log, after N invocations that each
\* acquired a Sample without fault, N mod T Samples are persisted and the log
\* holds the first T * (N div T) Samples in the order of their acquisition.
C4_BatchesOfT ==
    CleanDone =>
        LET N == cycles
            T == threshold
            flushed == T * (N \div T)
        IN /\ Persisted.isList
           /\ Len(Persisted.items) = N % T
           /\ Chrono(Persisted.items, flushed + 1, N)
           /\ Chrono(csv_file, 1, flushed)

\* C4 witness: with T = 6, the seventh clean invocation has ended: six rows
\* in the log, one Sample persisted.
C4_Witness ==
    /\ CleanDone
    /\ threshold = WRITE_THRESHOLD
    /\ cycles = WRITE_THRESHOLD + 1
    /\ Len(csv_file) = WRITE_THRESHOLD
    /\ Len(Persisted.items) = 1

\* C11: a notification call never changes the course of the invocation:
\* after blink_builtin_led(2) comes the flush decision and after
\* blink_builtin_led(3) the clearing of the buffer and the save, whether the
\* LED write succeeded or failed.
C11_BlinkNeverDiverts ==
    [][/\ pc = "Blink2" => pc' = "Deciding"
       /\ pc = "Blink3" => pc' = "Saving"]_vars

C13_RoundTrip ==
    /\ (pc = "Done" /\ save_called) =>
          load_buffer(buffer_file) = [raises |-> "none",
                                      value |-> PyList(save_arg)]
    /\ pc = "Appending" =>
          /\ buffer_file = file_at_start
          /\ load_buffer(buffer_file).value = buffer

\* C13 witness: a list of several Samples, one with a None humidity, has been
\* saved over a file that held another list.
C13_Witness ==
    /\ pc = "Done"
    /\ save_called
    /\ Len(save_arg) >= 3
    /\ \E i \in 1..Len(save_arg) : save_arg[i].humidity = "None"
    /\ PersistedAtStart.items # <<>>
    /\ PersistedAtStart.items # save_arg

\* C14: read_sensor makes one reader invocation per attempt and at most
\* `retries` of them; it returns None only after exactly `retries` failed
\* attempts, and otherwise returns the Sample of the attempt that succeeded,
\* the last one made.
C14_BoundedRetry ==
    /\ attempt <= retries
    /\ pc = "Acquiring" => reading = NoReading
    /\ pc \in {"Sleeping", "Checking"} =>
          IF reading = NoReading
          THEN attempt = retries
          ELSE /\ attempt \in 1..retries
               /\ reading.ts = clock - 1

\* C14 witness: read_sensor has returned a Sample on its third attempt.
C14_Witness ==
    /\ pc = "Sleeping"
    /\ reading # NoReading
    /\ attempt = 3

\* C15: a reading with a missing field is a failed attempt: it does not
\* raise out of read_sensor and no Sample with a None field reaches the
\* reading, the buffer file or the log.
C15_NoMissingField ==
    /\ error # "TypeError"
    /\ reading # NoReading => reading.humidity # "None"
    /\ \A i \in 1..Len(csv_file) : csv_file[i].humidity # "None"
    /\ \A i \in 1..Len(Persisted.items) :
          Persisted.items[i].humidity # "None"

\* C16: save_buffer is called at most once in an invocation, and only after
\* load_buffer, the append and the flush decision (after write_to_csv has
\* returned when the buffer reached the threshold); an invocation that ends
\* in Done with a Sample has called it.
C16_SaveOnceAtEnd ==
    /\ pc = "Saving" => ~save_called
    /\ save_called =>
          /\ pc \in {"Dumping", "Done", "Failed"}
          /\ reading # NoReading
          /\ PersistedAtStart.isList
          /\ csv_written <=>
                (Len(PersistedAtStart.items) + 1 >= threshold)
          /\ save_arg = IF csv_written
                        THEN <<>>
                        ELSE Append(PersistedAtStart.items, reading)
    /\ (pc = "Done" /\ reading # NoReading) => save_called

\* C16 witness: a flushing invocation has called save_buffer and ended.
C16_Witness ==
    /\ pc = "Done"
    /\ save_called
    /\ csv_written
    /\ Len(csv_file) > Len(csv_at_start)

\* C17: an invocation that ends in Failed without having called save_buffer
\* leaves the buffer file exactly as it found it.
C17_FailedLeavesFile ==
    (pc = "Failed" /\ ~save_called) => buffer_file = file_at_start

\* C17 witness: a fault after load_buffer and the append, before save_buffer.
C17_Witness ==
    /\ pc = "Failed"
    /\ ~save_called
    /\ buffer.isList
    /\ Len(buffer.items) >= 2
    /\ file_at_start.exists

\* The stages of an invocation in the order of the script.
Rank(p) ==
    CASE p = "Idle" -> 0
      [] p = "Acquiring" -> 1
      [] p = "Sleeping" -> 2
      [] p = "Checking" -> 3
      [] p = "Appending" -> 4
      [] p = "Blink2" -> 5
      [] p = "Deciding" -> 6
      [] p = "Blink3" -> 7
      [] p = "Saving" -> 8
      [] p = "Dumping" -> 9
      [] OTHER -> 10

\* A step of one invocation moves to a later stage, or is one more attempt
\* of read_sensor's loop.
Forward ==
    cycles' = cycles =>
        \/ Rank(pc') > Rank(pc)
        \/ /\ pc = "Acquiring"
           /\ pc' = "Acquiring"
           /\ attempt' = attempt + 1
           /\ attempt' <= retries

\* C18: every invocation ends (an invocation that entered MAIN ends in Done
\* or Failed; one whose UART setup failed has exited before MAIN), and until
\* then each of its steps goes forward: no stage is entered twice and
\* read_sensor makes at most `retries` attempts.
C18_SingleTraversal ==
    /\ (pc = "Idle") ~> (pc \in Terminal)
    /\ [][Forward /\ (woken' /\ pc' \in Terminal => pc' # "Aborted")]_vars

\* C18 witness: a later invocation made every attempt of read_sensor and
\* has ended, in Failed, on the last one.
C18_Witness ==
    /\ pc = "Failed"
    /\ woken
    /\ attempt = retries
    /\ cycles >= 2

\* The log followed by the persisted buffer.
Stored == csv_file \o Persisted.items

\* C19: from an absent buffer and an empty log, as long as no I/O fault has
\* occurred, between invocations the log followed by the persisted buffer is
\* the sequence of all Samples acquired so far, in order, each once (those
\* with a None humidity among them).
C19_Conservation ==
    (faults = 0 /\ pc \in {"Idle", "Done"}) =>
        /\ Persisted.isList
        /\ Chrono(Stored, 1, clock - 1)
        /\ Cardinality({i \in 1..Len(Stored) : Stored[i].humidity = "None"})
              = nones

\* C19 witness: after invocations with and without a reading and no fault,
\* Samples are both in the log and in the buffer.
C19_Witness ==
    /\ faults = 0
    /\ pc = "Done"
    /\ cycles > clock - 1
    /\ csv_file # <<>>
    /\ Persisted.items # <<>>

====
